---- MODULE Spec2Model ----
(***************************************************************************)
(* tlslite/x509.py: class X509, an X.509 certificate entity that is filled *)
(* by parse / parseBinary from PEM text or DER bytes and read back with    *)
(* writeBytes / getFingerprint.                                            *)
(*                                                                         *)
(* Bytes are sequences of integers 0..255.  None is modelled by NoBytes    *)
(* (subject), NoAlg (certAlg) and NoKey (publicKey).                       *)
(***************************************************************************)
EXTENDS Integers, Sequences, FiniteSets, TLC

\* ------------------------------------------------------------------------
\* Bounds of the model
\* ------------------------------------------------------------------------

\* Number of distinct subject names among the input certificates.
NumSubjects == 2

\* ------------------------------------------------------------------------
\* The unset values of the entity's fields (Python None)
\* ------------------------------------------------------------------------

NoBytes == << -1 >>

NoAlg == "None"

NoKey == [type |-> "None", curve |-> "None", n |-> 0, e |-> 0, point |-> <<>>]

\* ------------------------------------------------------------------------
\* Collaborators: the ASN.1 tree walker, the big-integer decoder, the key
\* constructors, the PEM armor, SHA-1 and hex.
\* ------------------------------------------------------------------------

RECURSIVE bytesToNumber(_)
\* Big-endian unsigned integer of a byte sequence.
bytesToNumber(b) ==
    IF Len(b) = 0 THEN 0
    ELSE bytesToNumber(SubSeq(b, 1, Len(b) - 1)) * 256 + b[Len(b)]

\* A failed read of the ASN.1 layer.
BadNode == [ok |-> FALSE, value |-> <<>>, bytes |-> <<>>]

\* The header of the element that starts at b[1]: its length field is one byte
\* when that byte is <= 127, else the low seven bits count the length bytes.
\* hdr is the size of tag + length field; len the size of the value.
ASN1Header(b) ==
    IF Len(b) < 2 THEN [ok |-> FALSE, hdr |-> 0, len |-> 0]
    ELSE IF b[2] <= 127 THEN [ok |-> TRUE, hdr |-> 2, len |-> b[2]]
    ELSE LET ll == b[2] % 128
         IN  IF Len(b) < 2 + ll THEN [ok |-> FALSE, hdr |-> 0, len |-> 0]
             ELSE [ok |-> TRUE, hdr |-> 2 + ll,
                   len |-> bytesToNumber(SubSeq(b, 3, 2 + ll))]

\* ASN1Parser(bytes): skip the type byte, read the length, take the value.
\* Bytes after the value are ignored; a value longer than what is left fails.
ASN1Parser(b) ==
    LET h == ASN1Header(b)
    IN  IF ~h.ok \/ Len(b) < h.hdr + h.len THEN BadNode
        ELSE [ok |-> TRUE,
              value |-> SubSeq(b, h.hdr + 1, h.hdr + h.len),
              bytes |-> SubSeq(b, 1, h.hdr + h.len)]

RECURSIVE ChildBytesOf(_, _)
\* The encoded bytes (tag + length + value) of child number which of a value.
ChildBytesOf(v, which) ==
    LET c == ASN1Parser(v)
    IN  IF ~c.ok THEN BadNode
        ELSE IF which = 0 THEN c
        ELSE ChildBytesOf(SubSeq(v, Len(c.bytes) + 1, Len(v)), which - 1)

\* node.getChildBytes(which)
getChildBytes(node, which) ==
    IF ~node.ok THEN BadNode ELSE ChildBytesOf(node.value, which)

\* node.getChild(which) == ASN1Parser(node.getChildBytes(which))
getChild(node, which) ==
    LET cb == getChildBytes(node, which)
    IN  IF ~cb.ok THEN BadNode ELSE ASN1Parser(cb.bytes)

RECURSIVE ChildCountOf(_)
\* Number of children of a value, -1 when the walk runs off the end.
ChildCountOf(v) ==
    IF Len(v) = 0 THEN 0
    ELSE LET c == ASN1Parser(v)
         IN  IF ~c.ok THEN -1
             ELSE LET rest == ChildCountOf(SubSeq(v, Len(c.bytes) + 1, Len(v)))
                  IN  IF rest < 0 THEN -1 ELSE rest + 1

\* node.getChildCount()
getChildCount(node) == IF ~node.ok THEN -1 ELSE ChildCountOf(node.value)

\* _createPublicRSAKey(n, e)
createPublicRSAKey(n, e) ==
    [type |-> "rsa", curve |-> "None", n |-> n, e |-> e, point |-> <<>>]

\* VerifyingKey.from_string(string, curve), when the constructor accepts the
\* point.
VerifyingKeyFromString(string, curve) ==
    [type |-> "ec", curve |-> curve, n |-> 0, e |-> 0, point |-> string]

\* ------------------------------------------------------------------------
\* Errors raised by parseBinary, named by the message of the raise
\* ------------------------------------------------------------------------

NoError == "none"

\* A read of the ASN.1 layer that runs off the input.
DecodeError == "ASN.1 decode error"

\* value[0] of an empty value.
IndexError == "IndexError"

\* The EC key constructor rejects the point.
KeyConstructionError == "MalformedPointError"

\* dePem finds no markers or no base64 between them.
PemError == "PEM error"

UnrecognizedAlgorithm == "Unrecognized AlgorithmIdentifier"

MissingParameters == "Missing parameters in AlgorithmIdentifier"

NonNullParameters == "Unexpected non-NULL parameters in AlgorithmIdentifier"

UnknownCurve == "Unknown elliptic curve"

\* raise SyntaxError() of _rsaPubKeyParsing: no message.
InvalidBitStringEncoding == "SyntaxError()"

UnexpectedPublicKeyEncoding == "Unexpected public key encoding"

\* ------------------------------------------------------------------------
\* class X509
\* ------------------------------------------------------------------------

RsaOID == <<42, 134, 72, 134, 247, 13, 1, 1, 1>>

RsaPssOID == <<42, 134, 72, 134, 247, 13, 1, 1, 10>>

EcdsaOID == <<42, 134, 72, 206, 61, 2, 1>>

P256OID == <<42, 134, 72, 206, 61, 3, 1, 7>>

P384OID == <<43, 129, 4, 0, 34>>

P521OID == <<43, 129, 4, 0, 35>>

VersionTag == 160

\* X509.__init__
EmptyX509 ==
    [bytes |-> <<>>, publicKey |-> NoKey, subject |-> NoBytes, certAlg |-> NoAlg]

\* What a call leaves: the entity and the error raised (NoError on return).
Raise(self, err) == [self |-> self, err |-> err]

Return(self) == [self |-> self, err |-> NoError]

\* A variant of the index computation that takes the version field to be there.
SubjectPublicKeyInfoIndexFixed(tbsValue) == 6

\* Is the optional version field present?  Gives the index of the key.
SubjectPublicKeyInfoIndex(tbsValue) ==
    IF tbsValue[1] = VersionTag THEN 6 ELSE 5

\* A variant of the OID table that compares the first eight bytes only.
CertAlgOfPrefix(algOID) ==
    LET head == SubSeq(algOID, 1, IF Len(algOID) < 8 THEN Len(algOID) ELSE 8)
    IN  IF algOID = RsaPssOID THEN "rsa-pss"
        ELSE IF head = SubSeq(RsaOID, 1, 8) THEN "rsa"
        ELSE IF algOID = EcdsaOID THEN "ecdsa"
        ELSE NoAlg

\* The certAlg of an algorithm OID, NoAlg when it is not recognised.
CertAlgOf(algOID) ==
    IF algOID = RsaOID THEN "rsa"
    ELSE IF algOID = RsaPssOID THEN "rsa-pss"
    ELSE IF algOID = EcdsaOID THEN "ecdsa"
    ELSE NoAlg

\* A variant of the curve table with the curves of the last two rows exchanged.
CurveOfSwapped(curveOID) ==
    IF curveOID = P256OID THEN "NIST256p"
    ELSE IF curveOID = P384OID THEN "NIST521p"
    ELSE IF curveOID = P521OID THEN "NIST384p"
    ELSE "None"

\* The curve of a curve OID, "None" when it is unknown.
CurveOf(curveOID) ==
    IF curveOID = P256OID THEN "NIST256p"
    ELSE IF curveOID = P384OID THEN "NIST384p"
    ELSE IF curveOID = P521OID THEN "NIST521p"
    ELSE "None"

\* A variant of _rsaPubKeyParsing without the check of the unused-bit count.
rsaPubKeyParsingUnchecked(self, subjectPublicKeyInfoP) ==
    LET subjectPublicKeyP == getChild(subjectPublicKeyInfoP, 1)
    IN
    IF ~subjectPublicKeyP.ok THEN Raise(self, DecodeError)
    ELSE IF Len(subjectPublicKeyP.value) = 0 THEN Raise(self, IndexError)
    ELSE
    LET inner == ASN1Parser(Tail(subjectPublicKeyP.value))
        modulusP == getChild(inner, 0)
        publicExponentP == getChild(inner, 1)
    IN
    IF ~inner.ok \/ ~modulusP.ok \/ ~publicExponentP.ok
    THEN Raise(self, DecodeError)
    ELSE
    LET n == bytesToNumber(modulusP.value)
        e == bytesToNumber(publicExponentP.value)
    IN  Return([self EXCEPT !.publicKey = createPublicRSAKey(n, e)])

\* X509._rsaPubKeyParsing
rsaPubKeyParsing(self, subjectPublicKeyInfoP) ==
    LET subjectPublicKeyP == getChild(subjectPublicKeyInfoP, 1)
    IN
    IF ~subjectPublicKeyP.ok THEN Raise(self, DecodeError)
    ELSE IF Len(subjectPublicKeyP.value) = 0 THEN Raise(self, IndexError)
    ELSE IF subjectPublicKeyP.value[1] # 0
         THEN Raise(self, InvalidBitStringEncoding)
    ELSE
    LET inner == ASN1Parser(Tail(subjectPublicKeyP.value))
        modulusP == getChild(inner, 0)
        publicExponentP == getChild(inner, 1)
    IN
    IF ~inner.ok \/ ~modulusP.ok \/ ~publicExponentP.ok
    THEN Raise(self, DecodeError)
    ELSE
    LET n == bytesToNumber(modulusP.value)
        e == bytesToNumber(publicExponentP.value)
    IN  Return([self EXCEPT !.publicKey = createPublicRSAKey(n, e)])

\* A variant of _ecdsaPubKeyParsing that stores the key before it checks the
\* prefix of the BIT STRING.
ecdsaPubKeyParsingEarlyWrite(self, subjectPublicKeyInfoP, curve, keyOk) ==
    LET bitString == getChild(subjectPublicKeyInfoP, 1)
        derPubKey == bitString.value
        written == [self EXCEPT !.publicKey =
                       VerifyingKeyFromString(SubSeq(derPubKey, 3, Len(derPubKey)),
                                              curve)]
    IN
    IF ~bitString.ok THEN Raise(self, DecodeError)
    ELSE IF SubSeq(derPubKey, 1, IF Len(derPubKey) < 2 THEN Len(derPubKey) ELSE 2)
            # <<0, 4>>
         THEN Raise(written, UnexpectedPublicKeyEncoding)
    ELSE IF ~keyOk THEN Raise(self, KeyConstructionError)
    ELSE Return(written)

\* X509._ecdsaPubKeyParsing; keyOk: the key constructor accepts the point.
ecdsaPubKeyParsing(self, subjectPublicKeyInfoP, curve, keyOk) ==
    LET bitString == getChild(subjectPublicKeyInfoP, 1)
        derPubKey == bitString.value
    IN
    IF ~bitString.ok THEN Raise(self, DecodeError)
    ELSE IF SubSeq(derPubKey, 1, IF Len(derPubKey) < 2 THEN Len(derPubKey) ELSE 2)
            # <<0, 4>>
         THEN Raise(self, UnexpectedPublicKeyEncoding)
    ELSE IF ~keyOk THEN Raise(self, KeyConstructionError)
    ELSE Return([self EXCEPT !.publicKey =
                    VerifyingKeyFromString(SubSeq(derPubKey, 3, Len(derPubKey)),
                                           curve)])

\* The part of X509.parseBinary after certAlg is assigned.
ParseParameters(self, algIdentifier, algIdentifierLen, subjectPublicKeyInfoP, keyOk) ==
    IF self.certAlg = "rsa" THEN
        IF algIdentifierLen # 2 THEN Raise(self, MissingParameters)
        ELSE LET params == getChild(algIdentifier, 1)
             IN  IF ~params.ok THEN Raise(self, DecodeError)
                 ELSE IF params.value # <<>>
                      THEN Raise(self, NonNullParameters)
                 ELSE rsaPubKeyParsing(self, subjectPublicKeyInfoP)
    ELSE IF self.certAlg = "ecdsa" THEN
        IF algIdentifierLen # 2 THEN Raise(self, MissingParameters)
        ELSE LET curveId == getChild(algIdentifier, 1)
             IN  IF ~curveId.ok THEN Raise(self, DecodeError)
                 ELSE IF CurveOf(curveId.value) = "None"
                      THEN Raise(self, UnknownCurve)
                 ELSE ecdsaPubKeyParsing(self, subjectPublicKeyInfoP,
                                         CurveOf(curveId.value), keyOk)
    ELSE rsaPubKeyParsing(self, subjectPublicKeyInfoP)

\* The part of X509.parseBinary after the subject is assigned.
ParseKeyInfo(self, tbsCertificateP, subjectPublicKeyInfoIndex, keyOk) ==
    LET subjectPublicKeyInfoP ==
            getChild(tbsCertificateP, subjectPublicKeyInfoIndex)
        algIdentifier == getChild(subjectPublicKeyInfoP, 0)
        algIdentifierLen == getChildCount(algIdentifier)
        alg == getChild(algIdentifier, 0)
    IN
    IF ~subjectPublicKeyInfoP.ok \/ ~algIdentifier.ok \/ algIdentifierLen < 0
       \/ ~alg.ok
    THEN Raise(self, DecodeError)
    ELSE IF CertAlgOf(alg.value) = NoAlg
         THEN Raise(self, UnrecognizedAlgorithm)
    ELSE ParseParameters([self EXCEPT !.certAlg = CertAlgOf(alg.value)],
                         algIdentifier, algIdentifierLen,
                         subjectPublicKeyInfoP, keyOk)

\* X509.parseBinary(bytes)
parseBinary(self0, bytes, keyOk) ==
    LET self == [self0 EXCEPT !.bytes = bytes]
        p == ASN1Parser(bytes)
        tbsCertificateP == getChild(p, 0)
    IN
    IF ~p.ok \/ ~tbsCertificateP.ok THEN Raise(self, DecodeError)
    ELSE IF Len(tbsCertificateP.value) = 0 THEN Raise(self, IndexError)
    ELSE
    LET subjectPublicKeyInfoIndex ==
            SubjectPublicKeyInfoIndex(tbsCertificateP.value)
        subject == getChildBytes(tbsCertificateP, subjectPublicKeyInfoIndex - 1)
    IN
    IF ~subject.ok THEN Raise(self, DecodeError)
    ELSE ParseKeyInfo([self EXCEPT !.subject = subject.bytes],
                      tbsCertificateP, subjectPublicKeyInfoIndex, keyOk)

\* ------------------------------------------------------------------------
\* Collaborators of parse and getFingerprint
\* ------------------------------------------------------------------------

\* PEM text is modelled as its two marker labels and its payload, a sequence
\* of base64 digits 0..63 with 64 standing for the padding character '='.
Pad == 64

RECURSIVE Base64From(_, _)
\* The bytes of the base64 digits t[i..]: four digits give three bytes, and a
\* last group "xx==" gives one, "xxx=" two.  [ok |-> FALSE] when the digits
\* are not base64.
Base64From(t, i) ==
    IF i > Len(t) THEN [ok |-> TRUE, bytes |-> <<>>]
    ELSE IF i + 3 > Len(t) \/ t[i] = Pad \/ t[i + 1] = Pad
         THEN [ok |-> FALSE, bytes |-> <<>>]
    ELSE
    LET w == t[i] * 262144 + t[i + 1] * 4096
             + (IF t[i + 2] = Pad THEN 0 ELSE t[i + 2] * 64)
             + (IF t[i + 3] = Pad THEN 0 ELSE t[i + 3])
        b1 == w \div 65536
        b2 == (w \div 256) % 256
        b3 == w % 256
    IN
    IF t[i + 2] = Pad
    THEN IF t[i + 3] = Pad /\ i + 3 = Len(t)
         THEN [ok |-> TRUE, bytes |-> <<b1>>]
         ELSE [ok |-> FALSE, bytes |-> <<>>]
    ELSE IF t[i + 3] = Pad
    THEN IF i + 3 = Len(t)
         THEN [ok |-> TRUE, bytes |-> <<b1, b2>>]
         ELSE [ok |-> FALSE, bytes |-> <<>>]
    ELSE LET rest == Base64From(t, i + 4)
         IN  IF rest.ok THEN [ok |-> TRUE, bytes |-> <<b1, b2, b3>> \o rest.bytes]
             ELSE rest

\* a2b_base64(t)
a2b_base64(t) == Base64From(t, 1)

\* dePem(s, name): the payload between the BEGIN name and END name markers.
dePem(s, name) ==
    IF s.begin # name \/ s.end # name THEN [ok |-> FALSE, bytes |-> <<>>]
    ELSE a2b_base64(s.payload)

RECURSIVE Checksum(_, _, _)
\* A one-byte checksum of b[lo..hi]: the sum of i * b[i], modulo 256.
Checksum(b, lo, hi) ==
    IF lo > hi THEN 0
    ELSE IF lo = hi THEN (lo * b[lo]) % 256
    ELSE LET mid == (lo + hi) \div 2
         IN  (Checksum(b, lo, mid) + Checksum(b, mid + 1, hi)) % 256

\* Stands for the SHA-1 digest of b.
SHA1(b) == <<Checksum(b, 1, Len(b))>>

HexDigits == <<"0", "1", "2", "3", "4", "5", "6", "7",
               "8", "9", "a", "b", "c", "d", "e", "f">>

RECURSIVE b2a_hex(_)
\* Lowercase hexadecimal text of a byte sequence, two digits a byte.
b2a_hex(b) ==
    IF Len(b) = 0 THEN <<>>
    ELSE <<HexDigits[(b[1] \div 16) + 1], HexDigits[(b[1] % 16) + 1]>>
         \o b2a_hex(Tail(b))

\* X509.parse(s)
parse(self, s, keyOk) ==
    LET bytes == dePem(s, "CERTIFICATE")
    IN  IF ~bytes.ok THEN Raise(self, PemError)
        ELSE parseBinary(self, bytes.bytes, keyOk)

\* X509.getFingerprint()
getFingerprint(self) == b2a_hex(SHA1(self.bytes))

\* A variant of writeBytes that gives an encoding of a parsed field.
writeBytesFromFields(self) == self.subject

\* X509.writeBytes()
writeBytes(self) == self.bytes

\* ------------------------------------------------------------------------
\* The inputs: DER certificates built from a description, and PEM texts
\* ------------------------------------------------------------------------

\* DER encoding of one element; the length takes the long form from 128 on.
Enc(tag, value) ==
    IF Len(value) <= 127 THEN <<tag, Len(value)>> \o value
    ELSE <<tag, 129, Len(value)>> \o value

RECURSIVE Concat(_)
Concat(ss) == IF Len(ss) = 0 THEN <<>> ELSE Head(ss) \o Concat(Tail(ss))

OidBytes(name) ==
    CASE name = "rsa" -> <<42, 134, 72, 134, 247, 13, 1, 1, 1>>
      [] name = "rsa-pss" -> <<42, 134, 72, 134, 247, 13, 1, 1, 10>>
      [] name = "ecdsa" -> <<42, 134, 72, 206, 61, 2, 1>>
      [] name = "sha256WithRSA" -> <<42, 134, 72, 134, 247, 13, 1, 1, 11>>
      [] name = "dsa" -> <<42, 134, 72, 206, 56, 4, 1>>
      [] name = "P256" -> <<42, 134, 72, 206, 61, 3, 1, 7>>
      [] name = "P384" -> <<43, 129, 4, 0, 34>>
      [] name = "P521" -> <<43, 129, 4, 0, 35>>
      [] name = "secp256k1" -> <<43, 129, 4, 0, 10>>

\* One parameter of an AlgorithmIdentifier: a NULL, an OCTET STRING or an OID.
ParamBytes(name) ==
    CASE name = "null" -> Enc(5, <<>>)
      [] name = "octets" -> Enc(4, <<7>>)
      [] OTHER -> Enc(6, OidBytes(name))

\* RSAPublicKey ::= SEQUENCE { modulus INTEGER, publicExponent INTEGER }
RsaKeyDer == Enc(48, Enc(2, <<0, 187>>) \o Enc(2, <<1, 0, 1>>))

\* An EC point: the coordinates after the 0x04 marker.
EcPoint == <<17, 34>>

\* The value of the subjectPublicKey BIT STRING.
BitsValue(name) ==
    CASE name = "rsa" -> <<0>> \o RsaKeyDer
      [] name = "rsaUnused" -> <<1>> \o RsaKeyDer
      [] name = "rsaNoExponent" -> <<0>> \o Enc(48, Enc(2, <<0, 187>>))
      [] name = "empty" -> <<>>
      [] name = "ec" -> <<0, 4>> \o EcPoint
      [] name = "ecCompressed" -> <<0, 3>> \o EcPoint
      [] name = "ecUnused" -> <<1, 4>> \o EcPoint

\* A Name with one attribute; 73 ("I") is the issuer, 64 + k subject k.
NameDer(c) == Enc(48, Enc(49, Enc(48, Enc(12, <<c>>))))

AlgorithmIdentifierDer(d) ==
    Enc(48, Enc(6, OidBytes(d.oid))
            \o Concat([i \in 1..Len(d.params) |-> ParamBytes(d.params[i])]))

\* subjectPublicKeyInfo, cut to its first d.nSpki children.
SubjectPublicKeyInfoDer(d) ==
    Enc(48, Concat(SubSeq(<<AlgorithmIdentifierDer(d), Enc(3, BitsValue(d.bits))>>,
                          1, d.nSpki)))

\* tbsCertificate: [0] version (when d.ver), serialNumber, signature, issuer,
\* validity, subject, subjectPublicKeyInfo, [3] extensions; the children after
\* the version cut to the first d.nTbs.
TbsCertificateDer(d) ==
    Enc(48, (IF d.ver THEN Enc(160, Enc(2, <<2>>)) ELSE <<>>)
            \o Concat(SubSeq(<<Enc(2, <<9>>),
                               Enc(48, Enc(6, <<42, 3>>)),
                               NameDer(73),
                               Enc(48, <<>>),
                               NameDer(64 + d.subj),
                               SubjectPublicKeyInfoDer(d),
                               Enc(163, <<>>)>>, 1, d.nTbs)))

\* Certificate ::= SEQUENCE { tbsCertificate, signatureAlgorithm, signature }
CertificateDer(d) ==
    Enc(48, TbsCertificateDer(d) \o Enc(48, Enc(6, <<42, 3>>)) \o Enc(3, <<0, 170>>))

\* The bytes handed to parseBinary: the certificate less its last d.cut bytes.
InputBytes(d) ==
    SubSeq(CertificateDer(d), 1, Len(CertificateDer(d)) - d.cut)

RECURSIVE DigitsFrom(_, _)
\* The base64 digits of the bytes b[i..].
DigitsFrom(b, i) ==
    IF i > Len(b) THEN <<>>
    ELSE IF i = Len(b)
    THEN <<b[i] \div 4, (b[i] % 4) * 16, Pad, Pad>>
    ELSE IF i + 1 = Len(b)
    THEN <<b[i] \div 4, (b[i] % 4) * 16 + b[i + 1] \div 16,
           (b[i + 1] % 16) * 4, Pad>>
    ELSE <<b[i] \div 4, (b[i] % 4) * 16 + b[i + 1] \div 16,
           (b[i + 1] % 16) * 4 + b[i + 2] \div 64, b[i + 2] % 64>>
         \o DigitsFrom(b, i + 3)

\* The base64 digits of a byte sequence (the inverse of a2b_base64).
b2a_base64(b) == DigitsFrom(b, 1)

\* The PEM text of a certificate: well formed ("ok"), under another label
\* ("label") or with its payload cut by one digit ("payload").
PemText(d, form) ==
    LET digits == b2a_base64(InputBytes(d))
    IN  [begin |-> IF form = "label" THEN "RSA PRIVATE KEY" ELSE "CERTIFICATE",
         payload |-> IF form = "payload"
                     THEN SubSeq(digits, 1, Len(digits) - 1) ELSE digits,
         end |-> IF form = "label" THEN "RSA PRIVATE KEY" ELSE "CERTIFICATE"]

Base ==
    [ver |-> TRUE, nTbs |-> 7, subj |-> 1, oid |-> "rsa", params |-> <<"null">>,
     nSpki |-> 2, bits |-> "rsa", cut |-> 0]

\* RSA, RSA-PSS and unrecognised OIDs with every shape of parameters, and
\* BIT STRINGs with unused bits.
RsaDescs ==
    {[Base EXCEPT !.oid = o, !.params = ps] :
        o \in {"rsa", "rsa-pss", "sha256WithRSA"},
        ps \in {<<>>, <<"null">>, <<"octets">>, <<"null", "null">>}}
    \cup {[Base EXCEPT !.oid = o, !.bits = "rsaUnused"] :
            o \in {"rsa", "rsa-pss", "sha256WithRSA"}}

\* ECDSA with every curve, every shape of parameters and every prefix of the
\* point.
EcDescs ==
    {[Base EXCEPT !.oid = "ecdsa", !.params = ps, !.bits = "ec"] :
        ps \in {<<>>, <<"P256">>, <<"P384">>, <<"P521">>, <<"secp256k1">>,
                <<"P256", "null">>}}
    \cup {[Base EXCEPT !.oid = "ecdsa", !.params = <<"P256">>, !.bits = b] :
            b \in {"ecCompressed", "ecUnused"}}
    \cup {[Base EXCEPT !.oid = "ecdsa", !.params = <<"secp256k1">>,
                       !.bits = "ecUnused"],
          [Base EXCEPT !.oid = "ecdsa", !.bits = "ec"]}

\* Keys of the other kind, empty and malformed BIT STRINGs, and certificates
\* without the version field.
MixedDescs ==
    {[Base EXCEPT !.oid = "dsa", !.params = <<"P256">>, !.bits = "ec"],
     [Base EXCEPT !.bits = "ec"],
     [Base EXCEPT !.bits = "rsaNoExponent"],
     [Base EXCEPT !.oid = "rsa-pss", !.params = <<>>, !.bits = "empty"],
     [Base EXCEPT !.oid = "ecdsa", !.params = <<"P256">>, !.bits = "rsa"],
     [Base EXCEPT !.ver = FALSE, !.oid = "rsa-pss", !.params = <<"octets">>],
     [Base EXCEPT !.ver = FALSE, !.params = <<"octets">>],
     [Base EXCEPT !.ver = FALSE, !.oid = "dsa"],
     [Base EXCEPT !.ver = FALSE, !.bits = "rsaUnused"],
     [Base EXCEPT !.ver = FALSE, !.oid = "ecdsa", !.params = <<"P521">>,
                  !.bits = "ec"],
     [Base EXCEPT !.ver = FALSE, !.oid = "ecdsa", !.params = <<"P384">>,
                  !.bits = "ecUnused"]}

\* Certificates cut short at each level.
ShortDescs ==
    {[Base EXCEPT !.ver = v, !.nTbs = n] : v \in BOOLEAN, n \in {0, 5}}
    \cup {[Base EXCEPT !.nSpki = 1], [Base EXCEPT !.cut = 1]}

\* The same certificates under each subject name.
SubjectDescs ==
    {[d EXCEPT !.subj = k] :
        d \in {Base, [Base EXCEPT !.ver = FALSE],
               [Base EXCEPT !.oid = "ecdsa", !.params = <<"P256">>, !.bits = "ec"]},
        k \in 1..NumSubjects}

Descs == RsaDescs \cup EcDescs \cup MixedDescs \cup ShortDescs \cup SubjectDescs

\* The certificates also given as PEM text.
PemDescs ==
    {Base, [Base EXCEPT !.oid = "ecdsa", !.params = <<"P384">>, !.bits = "ec"]}

PemForms == {"ok", "label", "payload"}

\* The verdicts the EC key constructor can give on a certificate's point; no
\* other path consults it.
KeyOutcomes(d) == IF d.oid = "ecdsa" THEN BOOLEAN ELSE {TRUE}

\* The inputs of parseBinary: each description with its bytes.
DerInputs == {[d |-> d, bytes |-> InputBytes(d)] : d \in Descs}

\* The inputs of parse: each description and form with its text.
PemInputs ==
    {[d |-> d, form |-> "ok", s |-> PemText(d, "ok")] : d \in PemDescs}
    \cup {[d |-> Base, form |-> f, s |-> PemText(Base, f)] : f \in PemForms}

\* ------------------------------------------------------------------------
\* The state machine: one X509 entity and the calls made on it
\* ------------------------------------------------------------------------

VARIABLES bytes, publicKey, subject, certAlg, last

vars == <<bytes, publicKey, subject, certAlg, last>>

\* The entity as a record.
Self ==
    [bytes |-> bytes, publicKey |-> publicKey, subject |-> subject,
     certAlg |-> certAlg]

\* last: the name of the latest call (op) and what it returned (ret); the input
\* of the latest parse or parseBinary (the description d of the certificate and
\* the form it came in: "der", or the form of the PEM text) and the error that
\* call raised.  form is "none" until the first of them.
NoCall ==
    [op |-> "init", d |-> Base, form |-> "none", err |-> NoError, ret |-> <<>>]

Init ==
    /\ bytes = EmptyX509.bytes
    /\ publicKey = EmptyX509.publicKey
    /\ subject = EmptyX509.subject
    /\ certAlg = EmptyX509.certAlg
    /\ last = NoCall

\* The entity takes the fields of what a call leaves.
Becomes(self) ==
    /\ bytes' = self.bytes
    /\ publicKey' = self.publicKey
    /\ subject' = self.subject
    /\ certAlg' = self.certAlg

ParseBinaryCall ==
    \E i \in DerInputs : \E keyOk \in KeyOutcomes(i.d) :
        \E r \in {parseBinary(Self, i.bytes, keyOk)} :
            /\ Becomes(r.self)
            /\ last' = [op |-> "parseBinary", d |-> i.d, form |-> "der",
                        err |-> r.err, ret |-> <<>>]

ParseCall ==
    \E i \in PemInputs : \E keyOk \in KeyOutcomes(i.d) :
        \E r \in {parse(Self, i.s, keyOk)} :
            /\ Becomes(r.self)
            /\ last' = [op |-> "parse", d |-> i.d, form |-> i.form,
                        err |-> r.err, ret |-> <<>>]

WriteBytesCall ==
    /\ UNCHANGED <<bytes, publicKey, subject, certAlg>>
    /\ last' = [last EXCEPT !.op = "writeBytes", !.ret = writeBytes(Self)]

GetFingerprintCall ==
    /\ UNCHANGED <<bytes, publicKey, subject, certAlg>>
    /\ last' = [last EXCEPT !.op = "getFingerprint",
                            !.ret = getFingerprint(Self)]

Next ==
    \/ ParseBinaryCall
    \/ ParseCall
    \/ WriteBytesCall
    \/ GetFingerprintCall

Spec == Init /\ [][Next]_vars

\* ------------------------------------------------------------------------
\* Vocabulary of the properties
\* ------------------------------------------------------------------------

ParseOps == {"parse", "parseBinary"}

\* The step is a call of parse or parseBinary.
ParseStep == last'.op \in ParseOps

\* The latest parse or parseBinary returned.
ParseSucceeded == last.form # "none" /\ last.err = NoError

\* The input reaches parseBinary: PEM text, if any, is well formed.
Armored(l) == l.form \in {"der", "ok"}

\* The input decodes as far as the AlgorithmIdentifier's OID: nothing is cut
\* from the certificate, tbsCertificate has its subject and
\* subjectPublicKeyInfo, and that has its AlgorithmIdentifier.
DecodesToOid(l) == Armored(l) /\ l.d.cut = 0 /\ l.d.nTbs >= 6 /\ l.d.nSpki >= 1

RecognizedOids == {"rsa", "rsa-pss", "ecdsa"}

KnownCurves == {"P256", "P384", "P521"}

\* The parameters are those the algorithm's rule demands: present and empty
\* for RSA, one known curve for ECDSA, anything for RSA-PSS.
ParametersAccepted(d) ==
    CASE d.oid = "rsa" -> d.params = <<"null">>
      [] d.oid = "ecdsa" -> Len(d.params) = 1 /\ d.params[1] \in KnownCurves
      [] d.oid = "rsa-pss" -> TRUE
      [] OTHER -> FALSE

\* The input reaches the extraction of the key from a BIT STRING that is there.
ReachesKey(l) == DecodesToOid(l) /\ l.d.nSpki = 2 /\ ParametersAccepted(l.d)

\* The unused-bit count of the BIT STRING is not zero.
UnusedBits(d) == d.bits \in {"rsaUnused", "ecUnused"}

\* The curve object the curve table gives for a curve OID.
CurveNamed(name) ==
    CASE name = "P256" -> "NIST256p"
      [] name = "P384" -> "NIST384p"
      [] name = "P521" -> "NIST521p"

\* ------------------------------------------------------------------------
\* C1  Commit on success
\* ------------------------------------------------------------------------

\* C1: a parse or parseBinary that fails leaves all four fields of the entity
\* (bytes, subject, certAlg, publicKey) as they were before the call.
C1_CommitOnSuccess ==
    [][(ParseStep /\ last'.err # NoError)
        => /\ bytes' = bytes
           /\ subject' = subject
           /\ certAlg' = certAlg
           /\ publicKey' = publicKey]_vars

\* ------------------------------------------------------------------------
\* C2  subject and publicKey are set together
\* ------------------------------------------------------------------------

\* C2: in every reachable state subject is set if and only if publicKey is set.
C2_SubjectIffPublicKey == (subject # NoBytes) <=> (publicKey # NoKey)

\* ------------------------------------------------------------------------
\* C3  certAlg and publicKey are consistent
\* ------------------------------------------------------------------------

\* C3: in every reachable state "rsa" and "rsa-pss" imply an RSA key, "ecdsa"
\* implies an EC key on the curve named in the certificate last parsed, and
\* an unset certAlg implies an unset publicKey.
C3_AlgorithmMatchesKey ==
    /\ certAlg \in {"rsa", "rsa-pss"} => publicKey.type = "rsa"
    /\ certAlg = "ecdsa"
        => /\ publicKey.type = "ec"
           /\ Len(last.d.params) >= 1
           /\ last.d.params[1] \in KnownCurves
           /\ publicKey.curve = CurveNamed(last.d.params[1])
    /\ certAlg = NoAlg => publicKey = NoKey

\* ------------------------------------------------------------------------
\* C10  publicKey is written last
\* ------------------------------------------------------------------------

\* C10: every error of parse and parseBinary is raised before publicKey is
\* written: a call that fails leaves publicKey as it was, and publicKey changes
\* only in a call of parse or parseBinary that returns.
C10_PublicKeyWrittenLast ==
    [][/\ (ParseStep /\ last'.err # NoError) => publicKey' = publicKey
       /\ publicKey' # publicKey => (ParseStep /\ last'.err = NoError)]_vars

\* Witness of C10: an entity that holds an RSA key is parsed again from an
\* ECDSA certificate with an unknown curve, and keeps the RSA key.
C10_Witness ==
    /\ last.op \in ParseOps
    /\ last.d.oid = "ecdsa"
    /\ last.err = UnknownCurve
    /\ publicKey.type = "rsa"

\* ------------------------------------------------------------------------
\* C4  The algorithm table is closed
\* ------------------------------------------------------------------------

\* C4: a parse returns only for the three OIDs of the table, and certAlg is
\* then the algorithm of that OID; for every other OID the parse fails with
\* "Unrecognized AlgorithmIdentifier", whatever the parameters and the BIT
\* STRING, and publicKey is not written.
C4_ClosedAlgorithmTable ==
    /\ [](last.form # "none"
            => /\ last.err = NoError
                   => (last.d.oid \in RecognizedOids /\ certAlg = last.d.oid)
               /\ (DecodesToOid(last) /\ last.d.oid \notin RecognizedOids)
                   => last.err = UnrecognizedAlgorithm)
    /\ [][(ParseStep /\ last'.d.oid \notin RecognizedOids)
            => publicKey' = publicKey]_vars

\* Witness of C4: an entity that holds a key is parsed from a certificate with
\* the OID of sha256WithRSAEncryption and NULL parameters.
C4_Witness ==
    /\ last.op \in ParseOps
    /\ last.d.oid = "sha256WithRSA"
    /\ last.d.params = <<"null">>
    /\ last.err = UnrecognizedAlgorithm
    /\ publicKey # NoKey

\* ------------------------------------------------------------------------
\* C5  RSA parameters are present and empty
\* ------------------------------------------------------------------------

InvalidAlgorithmParameters == {MissingParameters, NonNullParameters}

\* C5: for the RSA OID a parse returns only if the parameters are one empty
\* element; absent, extra or non-empty parameters are rejected as invalid
\* algorithm parameters; and an entity that ends a parse with certAlg "rsa"
\* and a public key came from parameters that were present and empty.
C5_RsaParametersNull ==
    last.form # "none"
        => /\ (last.d.oid = "rsa" /\ last.err = NoError)
               => last.d.params = <<"null">>
           /\ (DecodesToOid(last) /\ last.d.oid = "rsa"
               /\ last.d.params # <<"null">>)
               => last.err \in InvalidAlgorithmParameters
           /\ (certAlg = "rsa" /\ publicKey # NoKey)
               => last.d.params = <<"null">>

\* ------------------------------------------------------------------------
\* C6  The curve table
\* ------------------------------------------------------------------------

\* C6: an ECDSA certificate that parses has one parameter, a curve OID of the
\* table, and its key is on the curve of that OID; any other curve OID is
\* rejected with "Unknown elliptic curve" and an AlgorithmIdentifier without
\* exactly two children is rejected, both without writing publicKey.
C6_CurveTable ==
    /\ [](last.form # "none"
            => /\ (last.err = NoError /\ last.d.oid = "ecdsa")
                   => /\ Len(last.d.params) = 1
                      /\ last.d.params[1] \in KnownCurves
                      /\ publicKey.type = "ec"
                      /\ publicKey.curve = CurveNamed(last.d.params[1])
               /\ (DecodesToOid(last) /\ last.d.oid = "ecdsa"
                   /\ Len(last.d.params) = 1
                   /\ last.d.params[1] \notin KnownCurves)
                   => last.err = UnknownCurve
               /\ (DecodesToOid(last) /\ last.d.oid = "ecdsa"
                   /\ Len(last.d.params) # 1)
                   => last.err = MissingParameters)
    /\ [][(ParseStep /\ last'.d.oid = "ecdsa" /\ ~ParametersAccepted(last'.d))
            => publicKey' = publicKey]_vars

\* Witness of C6: a certificate on P-521 has parsed.
C6_Witness ==
    /\ last.op \in ParseOps
    /\ last.d.oid = "ecdsa"
    /\ last.d.params = <<"P521">>
    /\ last.err = NoError
    /\ publicKey.curve = "NIST521p"

\* ------------------------------------------------------------------------
\* C7  A BIT STRING with unused bits
\* ------------------------------------------------------------------------

\* C7: a subjectPublicKey whose unused-bit count is not zero is rejected with
\* the error of the RSA path, InvalidBitStringEncoding, for RSA, RSA-PSS and
\* ECDSA keys alike.
C7_SameErrorOnBothPaths ==
    (last.form # "none" /\ ReachesKey(last) /\ UnusedBits(last.d))
        => last.err = InvalidBitStringEncoding

\* C7 as amended: such a subjectPublicKey is rejected with the bare
\* SyntaxError of _rsaPubKeyParsing for RSA and RSA-PSS keys and with
\* "Unexpected public key encoding" for ECDSA keys, and on neither path is
\* publicKey written.
C7_UnusedBitsRejected ==
    /\ []((last.form # "none" /\ ReachesKey(last) /\ UnusedBits(last.d))
            => last.err = IF last.d.oid = "ecdsa"
                          THEN UnexpectedPublicKeyEncoding
                          ELSE InvalidBitStringEncoding)
    /\ [][(ParseStep /\ UnusedBits(last'.d)) => publicKey' = publicKey]_vars

\* Witness of C7: an ECDSA certificate on a known curve whose BIT STRING has
\* unused bits was rejected.
C7_Witness ==
    /\ last.op \in ParseOps
    /\ ReachesKey(last)
    /\ last.d.oid = "ecdsa"
    /\ last.d.bits = "ecUnused"
    /\ last.err = UnexpectedPublicKeyEncoding

\* ------------------------------------------------------------------------
\* C8  The offset of the version field
\* ------------------------------------------------------------------------

\* The certificate of d with the version field added or removed.
OtherVersion(d) == [d EXCEPT !.ver = ~d.ver]

\* Its bytes, for each certificate of the inputs.
OtherVersionBytes == [d \in Descs |-> InputBytes(OtherVersion(d))]

\* C8: the subject is the child before subjectPublicKeyInfo, which is child 6
\* of tbsCertificate when the version field leads and child 5 otherwise: the
\* subject is the certificate's subject Name and the key that of its BIT
\* STRING; and the certificate that differs only in the presence of the version
\* field gives the same subject, certAlg and publicKey.
C8_VersionOffset ==
    /\ []((last.form # "none" /\ Armored(last) /\ last.d.cut = 0)
            => /\ last.d.nTbs >= 5 => subject = NameDer(64 + last.d.subj)
               /\ (last.err = NoError /\ last.d.bits = "rsa")
                   => publicKey = createPublicRSAKey(187, 65537)
               /\ (last.err = NoError /\ last.d.bits = "ec")
                   => publicKey.point = EcPoint)
    /\ [][(ParseStep /\ Armored(last'))
            => \E r \in {parseBinary(Self, OtherVersionBytes[last'.d],
                                     last'.err # KeyConstructionError)} :
                  /\ r.self.subject = subject'
                  /\ r.self.certAlg = certAlg'
                  /\ r.self.publicKey = publicKey']_vars

\* Witness of C8: a certificate without the version field has parsed.
C8_Witness ==
    /\ last.op \in ParseOps
    /\ ~last.d.ver
    /\ last.err = NoError
    /\ subject = NameDer(64 + last.d.subj)
    /\ publicKey # NoKey

\* ------------------------------------------------------------------------
\* C9  writeBytes gives back the input
\* ------------------------------------------------------------------------

ReadOps == {"writeBytes", "getFingerprint"}

\* C9: after a parse that returned, writeBytes returns exactly the bytes that
\* were parsed; whatever subject, certAlg and publicKey are, it returns the
\* stored bytes; and no call of writeBytes or getFingerprint changes them.
C9_RoundTrip ==
    /\ [](last.op = "writeBytes"
            => /\ ParseSucceeded => last.ret = InputBytes(last.d)
               /\ last.ret = bytes)
    /\ [][last'.op \in ReadOps => bytes' = bytes]_vars

\* Witness of C9: writeBytes was called on an entity parsed from PEM text.
C9_Witness ==
    /\ last.op = "writeBytes"
    /\ ParseSucceeded
    /\ last.form = "ok"
    /\ last.ret = InputBytes(last.d)
    /\ subject # NoBytes

====
